---- MODULE Spec2Model ----
(***************************************************************************)
(* State-machine model of the gesture pipeline and the override lifecycle  *)
(* of the christmas-tree installation:                                     *)
(*   - src/components/GestureController.tsx  predictWebcam / detectGesture *)
(*   - src/App.tsx                            mode, zoomedPolaroid, ...    *)
(*   - src/components/Polaroids.tsx           index-finger effect, clicks  *)
(*   - src/components/Experience.tsx          double click on the tree     *)
(*   - src/components/Ornaments.tsx           useFrame position blending   *)
(*                                                                         *)
(* React scheduling: an event handler or a detection frame runs to         *)
(* completion, its state updates are batched, and the commit with its      *)
(* effects (action Render) is processed before the next event: every       *)
(* handler is guarded by ~dirty.  Time is counted in units of 100 ms and   *)
(* kept as the two differences the code computes from Date.now():          *)
(*   sinceGesture = currentTime - lastGestureTime.current   (Polaroids)    *)
(*   timeDiff     = currentTime - lastClickTime.current     (Experience)   *)
(* each saturating just above the constant it is compared with.            *)
(***************************************************************************)
EXTENDS Integers, Sequences, FiniteSets, TLC

\* ---------------------------------------------------------------- bounds
MaxFrames == 7          \* cap of the streak counters (they are unbounded in the code)
DefaultPhotoCount == 2  \* size of the built-in photo list, scaled down
HCap == MaxFrames + 2   \* cap of the observation counters
MaxPos == 16            \* polaroid coordinates are kept within -MaxPos..MaxPos
MaxUpload == 3          \* largest number of photos handed to handlePhotosUpload
PolaroidEpsilon == 1    \* "within epsilon" of a polaroid target, in world units
OrnamentEpsilon == 5    \* "within epsilon" of an ornament target, in units of 0.002
MaxRotation == 2        \* cap of autoRotateRef (it grows without bound in the code)
MaxTimeouts == 2        \* cap of the pending 3000 ms timers
MaxLoops == 2           \* cap of the predictWebcam loops running side by side

\* ------------------------------------------------------ program constants
CONFIDENCE_THRESHOLD == 5     \* frames, compared with > in detectGesture
FAST_THRESHOLD == 2           \* pointingFrames.current >= 2
gestureDebounceTime == 3      \* 300 ms
DOUBLE_CLICK_TIME == 3        \* timeDiff < 300 ms

LANDMARK_COUNT == 21          \* points of a detected hand (indices 0..20)
PALM_LAST_INDEX == 17         \* highest index read for the palm centre
TIP_LAST_INDEX == 20          \* highest index read by the finger loop
EXTENSION_RATIO == 15         \* distTip > distBase * 1.5, in tenths
THUMB_RATIO == 12             \* distThumbTip > distThumbBase * 1.2, in tenths

FORMED == "FORMED"
CHAOS == "CHAOS"
TreeMode == {FORMED, CHAOS}
null == -1

\* ----------------------------------------------------- the hand in a frame
\* A hand is given by the distances the classifier computes with Math.hypot:
\* for each finger, wrist to tip (distTip) and wrist to base (distBase), in
\* tenths of the base length.
Fingers == {"thumb", "index", "middle", "ring", "pinky"}
LongFingers == {"index", "middle", "ring", "pinky"}
TipDistances == {10, 12, 13, 15, 20}
BaseDistance == 10
Hands == [Fingers -> [distTip : TipDistances, distBase : {BaseDistance}]]
NoLandmarks == <<>>
\* numbers of points of a hand that is not complete
MalformedLengths == {0, 5, 17, 18, 20}

\* ------------------------------------------------- the scene of the blender
\* One ornament and one polaroid are followed, on the y axis.  Ornament
\* coordinates are in units of 0.002 (the wobble amplitude), polaroid
\* coordinates in world units; speeds are in tenths, frame durations (delta)
\* in tenths of a second, interpolation factors in hundredths.
OrnamentChaosPos == 0         \* d.chaosPos.y
OrnamentTargetPos == 256      \* d.targetPos.y
OrnamentSpeed == 10           \* d.speed = 1.0, drawn from 0.5 + Math.random() * 1.5
WOBBLE_AMPLITUDE == 1         \* 0.002
WOBBLE_RADIUS == 250          \* currentPos.distanceTo(d.targetPos) < 0.5
PolaroidChaosPos == -4        \* data.chaosPos.y
PolaroidTargetPos == 4        \* data.targetPos.y
PolaroidSpeed == 15           \* data.speed = 1.5, drawn from 0.8 + Math.random() * 1.5
ZOOM_LIFT == 2                \* data.targetPos.y + 2
ZOOM_MIN_HEIGHT == 8          \* Math.max(..., 8)
WatchedPolaroid == 0          \* index of the polaroid that is followed
Deltas == {5, 10, 20}         \* frame durations: 0.5 s, 1 s, 2 s
Wobbles == {-1, 0, 1}         \* Math.sin(time * 2 + d.chaosPos.x), rounded
PolaroidSpeeds == {8, 15, 23} \* the range of data.speed, 0.8 to 2.3
ZOOM_SLERP_RATE == 120        \* quaternion.slerp(..., delta * 12), in tenths
CHAOS_SLERP_RATE == 30        \* quaternion.slerp(..., delta * 3), in tenths

\* The texture loading of PolaroidItem. A url is its place in the chain: 0 is
\* the primary url, 1..FALLBACK_COUNT are the entries of fallbackUrls.
MAX_ATTEMPTS == 3             \* if (attempt >= 3)
FALLBACK_COUNT == 5           \* fallbackUrls.length
MaxInFlight == 3              \* loads in flight at a time
PRIMARY == 0
\* a load in flight: <<url, attempt, "fresh">> while its timer is pending,
\* <<url, 0, "late">> once the timer has fired (its attempt number is not
\* read any more)
LoadKinds == ((0..FALLBACK_COUNT) \X (1..MAX_ATTEMPTS) \X {"fresh"})
             \cup ((0..FALLBACK_COUNT) \X {0} \X {"late"})

\* The camera orbit of Experience. Angles are in hundredths of a radian; the
\* polar angle and the radius are not followed. handPosition.x is in units of
\* 1/942 of the frame width, so that (x - 0.5) * Math.PI * 3 is handX - 471.
PI == 314                     \* Math.PI
TWO_PI == 2 * PI
HAND_CENTRE == 471            \* handPosition.x = 0.5
LERP_SPEED == 8               \* lerpSpeed
\* The target polar angle of the hand mapping is in units of PI/3600, in
\* which Math.PI / 4 and Math.PI / 1.8 are whole; handPosition.y is in
\* hundredths of the frame height.
POLAR_PI == 3600              \* Math.PI, in polar units
MIN_POLAR == 900              \* minPolar = Math.PI / 4
MAX_POLAR == 2000             \* maxPolar = Math.PI / 1.8
Y_OFFSET == 20                \* handPosition.y - 0.2
Y_SENSITIVITY == 2            \* * 2.0
Y_FULL == 100                 \* handPosition.y = 1, and clampedY = 1
HAND_MIDDLE == 50             \* handPosition.y = 0.5
HAND_RIGHT == 942             \* handPosition.x = 1
HandYSamples == {0, 20, 45, 71, 100}
HandXEdges == {0, HAND_RIGHT}
AUTO_ROTATE_SPEED == 1        \* delta * 0.1 rad, per tenth of a second
CameraDeltas == {1}           \* frame duration of a camera frame: 0.1 s
HandXSamples == {0, 159, 628, 783, 942}
HandXHeld == 785              \* where the hand is held in the cooldown runs
AzimuthSamples == {-314, -312, -157, 157, 314}

VARIABLES
    \* GestureController refs
    openFrames, closedFrames, pointingFrames,
    lastGestureState, hasTriggeredZoom, lastModeRef,
    \* App state
    mode, handDetected, indexFingerDetected, zoomedPolaroid,
    \* Polaroids state and refs
    currentZoomIndex, previousIndexFingerState, sinceGesture, photoCount,
    \* Experience ref, as the age of the last click on the tree
    timeDiff,
    \* React bookkeeping
    renderedMode, dirty,
    \* GestureController: the requestAnimationFrame loop of predictWebcam
    rafScheduled,
    \* the hand measured in front of the camera (classification runs only)
    landmarks,
    \* Ornaments.currentPositions and PolaroidItem's groupRef position
    currentPositions, polaroidPosition,
    \* Experience: the isUserInteracting state, the pending 3000 ms timers
    \* (timeoutLive: the one held by autoRotateTimeoutRef is pending), the
    \* pointer held on the OrbitControls, autoRotateRef, the azimuth of the
    \* camera, and handPosition.x and handPosition.y of App
    isUserInteracting, autoRotateTimeouts, timeoutLive, orbiting,
    autoRotateRef, cameraAzimuth, handX, handY,
    \* GestureController's effect: how far setupMediaPipe and startWebcam have
    \* come, the predictWebcam loops beyond the one counted by rafScheduled,
    \* and whether the component is mounted (videoRef.current is the video)
    setupPhase, orphanLoops, mounted,
    \* the data of the followed ornament and of the followed polaroid
    \* (chaosPos, targetPos, speed), and the vector object that
    \* currentPositions.current holds for the ornament: "clone", an object
    \* of its own, or "chaosPos", the object d.chaosPos itself
    ornamentData, polaroidData, currentPosRef,
    \* the texture loading of the followed PolaroidItem: the loads in flight
    \* (how many of each url, attempt and timer state), and its texture, error
    \* and isLoading states
    attempts, texture, error, isLoading,
    \* observation (history) variables, never read by the program
    obs

gvars == <<openFrames, closedFrames, pointingFrames, lastGestureState, hasTriggeredZoom, lastModeRef>>
avars == <<mode, handDetected, indexFingerDetected, zoomedPolaroid>>
pvars == <<currentZoomIndex, previousIndexFingerState, sinceGesture, photoCount>>
mvars == <<currentPositions, polaroidPosition>>
tvars == <<isUserInteracting, autoRotateTimeouts, timeoutLive, orbiting>>
cvars == <<tvars, autoRotateRef, cameraAzimuth>>
lvars == <<setupPhase, orphanLoops, mounted>>
dvars == <<ornamentData, polaroidData, currentPosRef>>
ivars == <<attempts, texture, error, isLoading>>
vars == <<gvars, avars, pvars, timeDiff, renderedMode, dirty, rafScheduled, landmarks,
          mvars, cvars, handX, handY, lvars, dvars, ivars, obs>>

\* --------------------------------------------------------------- helpers
Min(a, b) == IF a < b THEN a ELSE b
Max(a, b) == IF a > b THEN a ELSE b
Bump(n) == Min(n + 1, HCap)

\* Math.max(0, x - 1) of the no-hand branch
DecayHard(x) == 0
DecayUnclamped(x) == x - 1
Decay(x) == Max(0, x - 1)

\* if (distTip > distBase * 1.5) extendedFingers++, for the four long fingers
LongExtended(m) == m.distTip * 10 > m.distBase * EXTENSION_RATIO
\* if (distThumbTip > distThumbBase * 1.2) extendedFingers++
ThumbExtendedAsLong(m) == m.distTip * 10 > m.distBase * EXTENSION_RATIO
ThumbExtended(m) == m.distTip * 10 > m.distBase * THUMB_RATIO
\* extendedFingers of the hand h
ExtendedFingers(h) ==
    Cardinality({f \in LongFingers : LongExtended(h[f])})
    + (IF ThumbExtended(h["thumb"]) THEN 1 ELSE 0)

\* const isPointing = extendedFingers < 5 && extendedFingers > 0
IsPointingUpToThree(n) == n < 4 /\ n > 0
IsPointing(n) == n < 5 /\ n > 0
\* const isOpenHand = extendedFingers >= 4
IsOpenHand(n) == n >= 4
\* currentGestureState
GestureStateOf(n) ==
    IF IsOpenHand(n) THEN "open"
    ELSE IF IsPointing(n) THEN "pointing"
    ELSE "other"

\* the branch of DECISION a hand-present frame takes
OpenBranch(n) == n >= 4 /\ ~IsPointing(n)
FistBranch(n) == ~OpenBranch(n) /\ n <= 1 /\ ~IsPointing(n)

\* category of a hand-present frame as the state machine treats it
Category(n) ==
    IF IsPointing(n) THEN "POINT"
    ELSE IF OpenBranch(n) THEN "OPEN"
    ELSE IF FistBranch(n) THEN "FIST"
    ELSE "AMBIGUOUS"

\* setMode(prev => prev === FORMED ? CHAOS : FORMED)
Flip(m) == IF m = FORMED THEN CHAOS ELSE FORMED

\* openFrames.current > CONFIDENCE_THRESHOLD (and the same test on closedFrames)
ConfirmedAtThreshold(c) == c >= CONFIDENCE_THRESHOLD
Confirmed(c) == c > CONFIDENCE_THRESHOLD

\* ------------------------------------------- detectGesture, piece by piece
\* pointingFrames after the frame: ++ in the pointing branch, 0 otherwise
NextPointing(n, pf) == IF IsPointing(n) THEN pf + 1 ELSE 0

\* openFrames after the frame
NextOpenKeptWhilePointing(n, o) ==
    IF IsPointing(n) THEN o
    ELSE IF OpenBranch(n) THEN o + 1
    ELSE 0
NextOpen(n, o) ==
    IF IsPointing(n) THEN 0
    ELSE IF OpenBranch(n) THEN o + 1
    ELSE 0

\* closedFrames after the frame
NextClosed(n, c) ==
    IF IsPointing(n) THEN 0
    ELSE IF OpenBranch(n) THEN 0
    ELSE IF FistBranch(n) THEN c + 1
    ELSE 0

\* lastGestureState === 'open' && !hasTriggeredZoom && pointingFrames >= 2
FastPath(n, pf1, last, has) ==
    IsPointing(n) /\ last = "open" /\ ~has /\ pf1 >= FAST_THRESHOLD

\* hasTriggeredZoom after the frame
NextTriggered(n, pf1, last, has) ==
    IF IsPointing(n) THEN (has \/ FastPath(n, pf1, last, has))
    ELSE IF GestureStateOf(n) = "open" THEN FALSE
    ELSE has

\* pointingFrames > CONFIDENCE_THRESHOLD && onIndexFingerDetected && !hasTriggeredZoom
SlowPath(n, pf1, has1) == IsPointing(n) /\ Confirmed(pf1) /\ ~has1

\* the calls of onIndexFingerDetected made by one frame, in order
IndexCallsNoRelease(n, pf1, last, has) ==
    IF IsPointing(n)
    THEN (IF FastPath(n, pf1, last, has) THEN <<TRUE>> ELSE <<>>)
         \o (IF SlowPath(n, pf1, NextTriggered(n, pf1, last, has)) THEN <<TRUE>> ELSE <<>>)
    ELSE <<>>
IndexCalls(n, pf1, last, has) ==
    IF IsPointing(n)
    THEN (IF FastPath(n, pf1, last, has) THEN <<TRUE>> ELSE <<>>)
         \o (IF SlowPath(n, pf1, NextTriggered(n, pf1, last, has)) THEN <<TRUE>> ELSE <<>>)
    ELSE <<FALSE>>

\* DECISION: the mode handed to onModeChange, or "none"
ModeDecisionNoGuard(n, o1, c1, lm) ==
    IF OpenBranch(n) /\ Confirmed(o1) /\ lm # CHAOS THEN CHAOS
    ELSE IF FistBranch(n) /\ Confirmed(c1) THEN FORMED
    ELSE "none"
ModeDecisionUnconfirmed(n, o1, c1, lm) ==
    IF OpenBranch(n) /\ lm # CHAOS THEN CHAOS
    ELSE IF FistBranch(n) /\ lm # FORMED THEN FORMED
    ELSE "none"
ModeDecision(n, o1, c1, lm) ==
    IF OpenBranch(n) /\ Confirmed(o1) /\ lm # CHAOS THEN CHAOS
    ELSE IF FistBranch(n) /\ Confirmed(c1) /\ lm # FORMED THEN FORMED
    ELSE "none"

\* ------------------------------------------------------- position blending
Abs(x) == IF x < 0 THEN -x ELSE x
\* a * b / 100 on the reals, rounded toward zero
Scale(a, b) == IF a * b >= 0 THEN (a * b) \div 100 ELSE -((-(a * b)) \div 100)

\* THREE.Vector3.lerp(v, alpha): this += (v - this) * alpha, with no clamp on
\* alpha (in hundredths)
Lerp(x, dest, alpha) == x + Scale(dest - x, alpha)

\* Ornaments: const step = Math.min(1, delta * d.speed)
OrnamentStepUnclamped(delta, speed) == delta * speed
OrnamentStep(delta, speed) == Min(100, delta * speed)

\* Polaroids: const step = delta * data.speed
PolaroidStep(delta, speed) == delta * speed

\* Ornaments: const dest = isFormed ? d.targetPos : d.chaosPos
OrnamentDest(m) == IF m = FORMED THEN ornamentData.targetPos ELSE ornamentData.chaosPos

\* Polaroids: const isZoomed = zoomedPolaroid === i
IsZoomedAny(z, i) == z # null
IsZoomed(z, i) == z = i

\* PolaroidItem: y of the dynamic zoom position, Math.max(data.targetPos.y + 2, 8)
ZoomPos == Max(polaroidData.targetPos + ZOOM_LIFT, ZOOM_MIN_HEIGHT)

\* PolaroidItem: targetPos of the frame
PolaroidDestModeFirst(m, zoomed) ==
    IF m = FORMED THEN polaroidData.targetPos
    ELSE IF zoomed THEN ZoomPos ELSE polaroidData.chaosPos
PolaroidDest(m, zoomed) ==
    IF zoomed THEN ZoomPos
    ELSE IF m = FORMED THEN polaroidData.targetPos ELSE polaroidData.chaosPos

\* Ornaments: if (isFormed && currentPos.distanceTo(d.targetPos) < 0.5)
\*              currentPos.y += Math.sin(...) * 0.002
\* currentPos is the vector stored in currentPositions.current
WobbleOff(m, pos, w) == pos
Wobble(m, pos, w) ==
    IF m = FORMED /\ Abs(pos - ornamentData.targetPos) < WOBBLE_RADIUS
    THEN pos + w * WOBBLE_AMPLITUDE
    ELSE pos

\* Ornaments: currentPositions.current = allData.map(d => d.chaosPos.clone());
\* the vector object stored for an entity whose data vector is ref
SharePos(ref) == ref
ClonePos(ref) == "clone"

\* PolaroidItem: the rate of quaternion.slerp, whose factor is delta * rate:
\* delta * 12 when zoomed, step = delta * data.speed in FORMED, delta * 3 in
\* CHAOS (rates in tenths)
SlerpRateFixed(m, zoomed, speed) ==
    IF zoomed THEN ZOOM_SLERP_RATE ELSE CHAOS_SLERP_RATE
SlerpRate(m, zoomed, speed) ==
    IF zoomed THEN ZOOM_SLERP_RATE
    ELSE IF m = FORMED THEN speed ELSE CHAOS_SLERP_RATE

\* ------------------------------------------------------------ App handlers
\* handlePolaroidClick(photoIndex), evaluated with the rendered mode and zoom
HandlePolaroidClick(m, z, photoIndex) ==
    IF m = CHAOS
    THEN (IF photoIndex = null THEN null
          ELSE IF z = photoIndex THEN null ELSE photoIndex)
    ELSE z

\* useEffect(() => { lastModeRef.current = currentMode }, [currentMode]):
\* runs when the committed mode m differs from the previously committed rm
\* (handPosition.x - 0.5) * Math.PI * 3
TargetAzimuth(x) == x - HAND_CENTRE

\* clampedY = Math.max(0, Math.min(1, (handPosition.y - 0.2) * 2.0))
ClampedYOpen(y) == (y - Y_OFFSET) * Y_SENSITIVITY
ClampedY(y) == Max(0, Min(Y_FULL, (y - Y_OFFSET) * Y_SENSITIVITY))
\* targetPolar = minPolar + clampedY * (maxPolar - minPolar)
TargetPolar(y) == MIN_POLAR + (ClampedY(y) * (MAX_POLAR - MIN_POLAR)) \div Y_FULL

\* ------------------------------------------------------------ loadImage
RECURSIVE SumOver(_, _)
SumOver(f, S) ==
    IF S = {} THEN 0
    ELSE LET k == CHOOSE x \in S : TRUE IN f[k] + SumOver(f, S \ {k})
\* the loads whose callback has not come yet
InFlight(att) == SumOver(att, LoadKinds)
\* loadImage(url, fallbackUrls, attempt): a timer is set and loader.load is
\* called; the load is "fresh" while its timer is pending
StartLoad(att, u, a) == [att EXCEPT ![<<u, a, "fresh">>] = @ + 1]
\* a callback of loader.load has come, or the timer has fired (the load
\* goes on: it is "late")
EndLoad(att, u, a, k) == [att EXCEPT ![<<u, a, k>>] = @ - 1]
TimerFired(att, u, a) ==
    [att EXCEPT ![<<u, a, "fresh">>] = @ - 1, ![<<u, 0, "late">>] = @ + 1]
\* fallbackUrls.length > 0, for the list handed on with the url u
HasFallback(u) == u < FALLBACK_COUNT

\* azimuthDiff of the hand mapping without the two corrections
AzimuthDiffRaw(target, current) == target - current
\* azimuthDiff: the difference, moved by one turn when it is beyond half a turn
AzimuthDiff(target, current) ==
    LET d == target - current
        e == IF d > PI THEN d - TWO_PI ELSE d
    IN IF e < -PI THEN e + TWO_PI ELSE e

\* the azimuth that controls.update() reads back from the camera position
\* (Math.atan2, in (-PI, PI])
WrapAngle(a) ==
    LET r == (a + PI) % TWO_PI
    IN IF r = 0 THEN PI ELSE r - PI

\* the branch of Experience's useFrame that writes the orbit
CameraDriveIdleFirst(detected, interacting) ==
    IF ~interacting THEN "idle" ELSE IF detected THEN "hand" ELSE "none"
CameraDrive(detected, interacting) ==
    IF detected THEN "hand" ELSE IF ~interacting THEN "idle" ELSE "none"

\* Polaroids: const nextIndex = (currentZoomIndex + 1) % photoCount
NextZoomIndex(c, count) == (c + 1) % count

\* Polaroids: !previousIndexFingerState.current &&
\*            (currentTime - lastGestureTime.current > gestureDebounceTime)
RisingEdgeNoDebounce(prev, since) == ~prev
RisingEdge(prev, since) == ~prev /\ since > gestureDebounceTime

\* Polaroids: previousIndexFingerState.current = indexFingerDetected, the last
\* statement of the effect, outside the mode test
StoredFingerStateChaosOnly(detected, m, prev) == IF m = CHAOS THEN detected ELSE prev
StoredFingerState(detected, m, prev) == detected

SyncedModeRefNever(m, rm, lmr) == lmr
SyncedModeRef(m, rm, lmr) == IF m # rm THEN m ELSE lmr

\* ------------------------------------------------------------ observation
\* obs.watch selects the observer that is maintained: "life" (override
\* lifecycle), "run" (runs of classifications), "scn" (runs from a fresh
\* state), "point" (point events)
NoScn == [ok |-> FALSE, opens |-> 0, nones |-> 0, ambs |-> 0]
NewScn == [ok |-> TRUE, opens |-> 0, nones |-> 0, ambs |-> 0]

\* a state from which a run "starts from FORMED with all streak counters at zero"
Fresh ==
    /\ mode = FORMED /\ lastModeRef = FORMED
    /\ openFrames = 0 /\ closedFrames = 0 /\ pointingFrames = 0

\* the run tracker after a frame of category cat
ScnAfter(cat) ==
    LET b == IF Fresh THEN NewScn ELSE obs.scn IN
    IF ~b.ok THEN NoScn
    ELSE IF cat = "OPEN" THEN [b EXCEPT !.opens = Bump(b.opens)]
    ELSE IF cat = "NONE" THEN [b EXCEPT !.nones = Min(b.nones + 1, 2)]
    ELSE IF cat \in {"POINT", "AMBIGUOUS"} THEN [b EXCEPT !.ambs = Min(b.ambs + 1, 2)]
    ELSE NoScn

TrueCount(calls) == Cardinality({i \in DOMAIN calls : calls[i]})
FalseCount(calls) == Cardinality({i \in DOMAIN calls : ~calls[i]})

\* observations after a detection frame
ObsFrame(cat, emit, calls, ifd1, mode1) ==
    LET w == obs.watch
        sameRun == obs.runCat = cat
    IN
    [ obs EXCEPT
      !.op = IF cat = "NONE" THEN "NoHand" ELSE "HandFrame",
      !.cat = cat,
      !.modeEmit = emit,
      !.trueCalls = TrueCount(calls),
      !.falseCalls = FalseCount(calls),
      !.runCat = IF w \in {"run", "point"} THEN cat ELSE @,
      !.runLen = IF w \in {"run", "point"} THEN (IF sameRun THEN Bump(@) ELSE 1) ELSE @,
      !.runPrev = IF w = "point" THEN (IF sameRun THEN @ ELSE obs.runCat) ELSE @,
      !.handCat = IF w = "run" /\ cat # "NONE" THEN cat ELSE @,
      !.sameSince = IF w = "run" /\ cat # "NONE"
                    THEN (IF obs.handCat = cat THEN Bump(@) ELSE 1) ELSE @,
      !.pointTrue = IF w = "point"
                    THEN (IF cat = "POINT"
                          THEN Min(2, (IF sameRun THEN @ ELSE 0) + TrueCount(calls))
                          ELSE 0)
                    ELSE @,
      !.scn = IF w = "scn" THEN ScnAfter(cat) ELSE @,
      !.mcZoom = IF w \in {"life", "formed"}
                 THEN (IF mode1 # mode THEN zoomedPolaroid ELSE -2) ELSE @,
      !.rel = IF w \in {"life", "point"} THEN (indexFingerDetected /\ ~ifd1) ELSE @,
      !.clk = -2 ]

\* observations after a UI handler
ObsHandler(name, mode1) ==
    [ obs EXCEPT !.op = name, !.cat = "-", !.modeEmit = "none", !.trueCalls = 0,
                 !.falseCalls = 0,
                 !.scn = NoScn,
                 !.mcZoom = IF obs.watch \in {"life", "formed"}
                            THEN (IF mode1 # mode THEN zoomedPolaroid ELSE -2) ELSE @,
                 !.rel = FALSE,
                 !.clk = -2 ]

\* observations after a step that is not a handler
ObsStep(name) ==
    [ obs EXCEPT !.op = name, !.cat = "-", !.modeEmit = "none", !.trueCalls = 0,
                 !.falseCalls = 0 ]

\* the index-finger signal rises in CHAOS mode within the debounce window of
\* the last accepted edge
RejectedEdge ==
    /\ indexFingerDetected /\ photoCount > 0 /\ mode = CHAOS
    /\ ~previousIndexFingerState
    /\ sinceGesture <= gestureDebounceTime

ObsInit(w) ==
    [ watch |-> w, op |-> "Init", cat |-> "-", modeEmit |-> "none", trueCalls |-> 0,
      falseCalls |-> 0,
      runCat |-> "-", runLen |-> 0, runPrev |-> "-",
      handCat |-> "-", sameSince |-> 0, pointTrue |-> 0,
      scn |-> NoScn, mcZoom |-> -2, rel |-> FALSE,
      drive |-> "-", diff |-> 0, slerpRate |-> 0, clk |-> -2,
      rejected |-> FALSE, formedPoint |-> FALSE, target |-> <<0, MIN_POLAR>>,
      started |-> PRIMARY ]

\* ------------------------------------------------------------------- Init
\* sinceGesture and timeDiff start saturated: Date.now() is far from the
\* initial 0 of lastGestureTime and lastClickTime
SinceGestureSat == gestureDebounceTime + 1
TimeDiffSat == DOUBLE_CLICK_TIME

\* Experience after construction: no timer, camera at [0, 4, 20]
ControlsInit ==
    /\ isUserInteracting = FALSE /\ autoRotateTimeouts = 0 /\ timeoutLive = FALSE
    /\ orbiting = FALSE
    /\ autoRotateRef = 0
    /\ handX = HAND_CENTRE /\ handY = HAND_MIDDLE
CameraInit == ControlsInit /\ cameraAzimuth = 0

AppInit ==
    /\ openFrames = 0 /\ closedFrames = 0 /\ pointingFrames = 0
    /\ lastGestureState = "other" /\ hasTriggeredZoom = FALSE
    /\ lastModeRef = FORMED
    /\ mode = FORMED /\ handDetected = FALSE
    /\ indexFingerDetected = FALSE /\ zoomedPolaroid = null
    /\ currentZoomIndex = 0 /\ previousIndexFingerState = FALSE
    /\ sinceGesture = SinceGestureSat /\ photoCount = DefaultPhotoCount
    /\ timeDiff = TimeDiffSat
    /\ renderedMode = FORMED /\ dirty = FALSE
    /\ currentPositions = OrnamentChaosPos /\ polaroidPosition = 0

\* GestureController right after mount: setupMediaPipe has been called
SetupInit ==
    /\ setupPhase = "model" /\ rafScheduled = FALSE /\ orphanLoops = 0 /\ mounted = TRUE
\* GestureController with the detection running: the model and the webcam
\* are there and loadeddata has fired once
LoopInit ==
    /\ setupPhase = "listening" /\ rafScheduled = TRUE /\ orphanLoops = 0 /\ mounted = TRUE

\* the populations as built by the useMemo of Ornaments and of Polaroids, and
\* currentPositions as filled by the useLayoutEffect of Ornaments
OrnamentInit ==
    /\ ornamentData = [chaosPos |-> OrnamentChaosPos, targetPos |-> OrnamentTargetPos,
                       speed |-> OrnamentSpeed]
    /\ currentPosRef = ClonePos("chaosPos")
\* PolaroidItem after its mount effect: loadImage(primaryUrl, fallbackUrls, 1)
LoadInit ==
    /\ attempts = StartLoad([k \in LoadKinds |-> 0], PRIMARY, 1)
    /\ texture = null /\ error = FALSE /\ isLoading = TRUE
SceneInit ==
    /\ OrnamentInit /\ LoadInit
    /\ polaroidData = [chaosPos |-> PolaroidChaosPos, targetPos |-> PolaroidTargetPos,
                       speed |-> PolaroidSpeed]
\* the same with any speed that the useMemo of Polaroids may draw
SceneInitAnySpeed ==
    /\ OrnamentInit /\ LoadInit
    /\ polaroidData \in [chaosPos : {PolaroidChaosPos}, targetPos : {PolaroidTargetPos},
                          speed : PolaroidSpeeds]

ProgramInit == AppInit /\ CameraInit /\ LoopInit /\ SceneInit
\* the state after the user has dragged the camera to some azimuth and the
\* cooldown has passed
DraggedInit ==
    AppInit /\ ControlsInit /\ LoopInit /\ SceneInit /\ cameraAzimuth \in AzimuthSamples

Init == ProgramInit /\ landmarks = NoLandmarks /\ obs = ObsInit("life")
InitRun == ProgramInit /\ landmarks = NoLandmarks /\ obs = ObsInit("run")
InitScn == ProgramInit /\ landmarks = NoLandmarks /\ obs = ObsInit("scn")
InitPoint == ProgramInit /\ landmarks = NoLandmarks /\ obs = ObsInit("point")
\* the state reached from ProgramInit by the UI toggle and six one-finger
\* frames, each followed by its commit: mode CHAOS, the point event emitted
\* and the next polaroid zoomed
PointedApp ==
    /\ openFrames = 0 /\ closedFrames = 0
    /\ pointingFrames = CONFIDENCE_THRESHOLD + 1
    /\ lastGestureState = "pointing" /\ hasTriggeredZoom = FALSE
    /\ lastModeRef = CHAOS
    /\ mode = CHAOS /\ handDetected = TRUE
    /\ indexFingerDetected = TRUE /\ zoomedPolaroid = 1 % DefaultPhotoCount
    /\ currentZoomIndex = 1 % DefaultPhotoCount /\ previousIndexFingerState = TRUE
    /\ sinceGesture = 0 /\ photoCount = DefaultPhotoCount
    /\ timeDiff = TimeDiffSat
    /\ renderedMode = CHAOS /\ dirty = FALSE
    /\ currentPositions = OrnamentChaosPos /\ polaroidPosition = 0

PointedInit == PointedApp /\ CameraInit /\ LoopInit /\ SceneInit

InitLifecycle ==
    /\ AppInit /\ CameraInit /\ SetupInit /\ SceneInit
    /\ landmarks = NoLandmarks /\ obs = ObsInit("lifecycle")
InitCamera == ProgramInit /\ landmarks = NoLandmarks /\ obs = ObsInit("camera")
InitAzimuth == DraggedInit /\ landmarks = NoLandmarks /\ obs = ObsInit("azimuth")
\* blending runs in which the speed of the followed polaroid is any of the
\* speeds that can be drawn
InitOrient ==
    /\ AppInit \/ PointedApp
    /\ CameraInit /\ LoopInit /\ SceneInitAnySpeed
    /\ landmarks = NoLandmarks /\ obs = ObsInit("orient")
\* blending runs with faults
InitFault ==
    /\ ProgramInit \/ PointedInit
    /\ landmarks = NoLandmarks /\ obs = ObsInit("fault")
\* runs in which the point events that arrive in FORMED mode are followed
InitFormed == ProgramInit /\ landmarks = NoLandmarks /\ obs = ObsInit("formed")
\* the hand mapping: a hand is shown at the places of a grid
InitPolar == ProgramInit /\ landmarks = NoLandmarks /\ obs = ObsInit("polar")
\* the texture loading of the followed polaroid
InitLoad == ProgramInit /\ landmarks = NoLandmarks /\ obs = ObsInit("load")
InitZoom == ProgramInit /\ landmarks = NoLandmarks /\ obs = ObsInit("zoom")
\* blending runs: from construction, or with a finger pointing
InitMotion ==
    /\ ProgramInit \/ PointedInit
    /\ landmarks = NoLandmarks /\ obs = ObsInit("motion")
\* classification runs: one hand, held in front of the camera
InitClassify == ProgramInit /\ landmarks \in Hands /\ obs = ObsInit("classify")

\* ---------------------------------------------------------------- actions
\* handLandmarker of the effect closure is set once createFromOptions has
\* resolved; cleanup closes it but does not null it
HasLandmarker == setupPhase \in {"webcam", "listening", "nocamera"}

\* the guard at the top of predictWebcam: !handLandmarker || !videoRef.current
CanProcessNoVideoCheck(landmarker, video) == landmarker
CanProcess(landmarker, video) == landmarker /\ video

\* one predictWebcam loop ends: its callback returns or throws before
\* requestAnimationFrame, or its pending request is cancelled
EndOneLoop ==
    /\ rafScheduled' = (orphanLoops > 0)
    /\ orphanLoops' = Max(0, orphanLoops - 1)

\* detectGesture(landmarks), where the landmarks give n extended fingers
DetectGesture(n) ==
    /\ ~dirty
    /\ NextPointing(n, pointingFrames) <= MaxFrames
    /\ NextOpen(n, openFrames) <= MaxFrames
    /\ NextClosed(n, closedFrames) <= MaxFrames
    /\ LET pf1 == NextPointing(n, pointingFrames)
           o1 == NextOpen(n, openFrames)
           c1 == NextClosed(n, closedFrames)
           calls == IndexCalls(n, pf1, lastGestureState, hasTriggeredZoom)
           ifd1 == IF Len(calls) > 0 THEN calls[Len(calls)] ELSE indexFingerDetected
           emit == ModeDecision(n, o1, c1, lastModeRef)
           mode1 == IF emit = "none" THEN mode ELSE emit
       IN /\ handDetected' = TRUE
          /\ pointingFrames' = pf1
          /\ openFrames' = o1
          /\ closedFrames' = c1
          /\ hasTriggeredZoom' = NextTriggered(n, pf1, lastGestureState, hasTriggeredZoom)
          /\ indexFingerDetected' = ifd1
          /\ lastGestureState' = GestureStateOf(n)
          /\ lastModeRef' = IF emit = "none" THEN lastModeRef ELSE emit
          /\ mode' = mode1
          /\ obs' = ObsFrame(Category(n), emit, calls, ifd1, mode1)
    /\ dirty' = TRUE
    /\ UNCHANGED <<dvars, ivars, zoomedPolaroid, pvars, timeDiff, renderedMode, rafScheduled, mvars, cvars, lvars>>

\* predictWebcam with a detected hand of n extended fingers; the frame ends
\* with requestAnimationFrame(predictWebcam)
HandFrame(n) ==
    /\ rafScheduled
    /\ CanProcess(HasLandmarker, mounted)
    /\ DetectGesture(n)
    /\ UNCHANGED <<landmarks, handX, handY>>

\* the same frame with the palm centre at x: detectGesture reports it with
\* onHandPosition(palmCenterX, palmCenterY, true)
HandFrameAt(n, x) ==
    /\ rafScheduled
    /\ CanProcess(HasLandmarker, mounted)
    /\ DetectGesture(n)
    /\ handX' = x
    /\ UNCHANGED <<landmarks, handY>>

\* the same frame with the palm centre at (x, y)
HandFrameAtPoint(n, x, y) ==
    /\ rafScheduled
    /\ CanProcess(HasLandmarker, mounted)
    /\ DetectGesture(n)
    /\ handX' = x /\ handY' = y
    /\ UNCHANGED landmarks

\* predictWebcam with the hand of a classification run: detectGesture counts
\* the extended fingers from the landmarks
HeldHandFrame ==
    /\ rafScheduled
    /\ CanProcess(HasLandmarker, mounted)
    /\ landmarks # NoLandmarks
    /\ DetectGesture(ExtendedFingers(landmarks))
    /\ UNCHANGED <<landmarks, handX, handY>>

\* predictWebcam without a detected hand
NoHandFrame ==
    /\ ~dirty
    /\ rafScheduled
    /\ CanProcess(HasLandmarker, mounted)
    /\ handDetected' = FALSE
    /\ openFrames' = Decay(openFrames)
    /\ closedFrames' = Decay(closedFrames)
    /\ pointingFrames' = Decay(pointingFrames)
    /\ lastGestureState' = "other"
    /\ hasTriggeredZoom' = FALSE
    /\ handX' = HAND_CENTRE /\ handY' = HAND_MIDDLE
    /\ obs' = ObsFrame("NONE", "none", <<>>, indexFingerDetected, mode)
    /\ dirty' = TRUE
    /\ UNCHANGED <<dvars, ivars, lastModeRef, mode, indexFingerDetected, zoomedPolaroid,
                   pvars, timeDiff, renderedMode, rafScheduled, landmarks, mvars, cvars, lvars>>

\* predictWebcam when handLandmarker.detectForVideo throws: predictWebcam has
\* no try/catch, the exception leaves the callback before line 125 and no
\* further frame is requested
DetectorThrows ==
    /\ ~dirty
    /\ rafScheduled
    /\ CanProcess(HasLandmarker, mounted)
    /\ EndOneLoop
    /\ obs' = ObsStep("DetectorThrow")
    /\ UNCHANGED <<dvars, ivars, gvars, avars, pvars, timeDiff, renderedMode, dirty, landmarks, mvars,
                   cvars, handX, handY, setupPhase, mounted>>

\* predictWebcam with a detected hand of len < 21 points: detectGesture reads
\* landmarks[i].x of a missing point and throws a TypeError, at the palm
\* centre when len <= 17 (nothing has been updated yet), in the finger loop
\* otherwise (the hand position has been reported); the exception leaves
\* predictWebcam before line 125
MalformedFrame(len) ==
    /\ ~dirty
    /\ rafScheduled
    /\ CanProcess(HasLandmarker, mounted)
    /\ len < LANDMARK_COUNT
    /\ LET reported == len > PALM_LAST_INDEX /\ len <= TIP_LAST_INDEX
       IN /\ handDetected' = (IF reported THEN TRUE ELSE handDetected)
          /\ dirty' = reported
    /\ EndOneLoop
    /\ obs' = ObsStep("Malformed")
    /\ UNCHANGED <<dvars, ivars, gvars, mode, indexFingerDetected, zoomedPolaroid, pvars, timeDiff,
                   renderedMode, landmarks, mvars, cvars, handX, handY, setupPhase, mounted>>

\* App.toggleMode, the UI toggle
ToggleMode ==
    /\ ~dirty
    /\ mode' = Flip(mode)
    /\ obs' = ObsHandler("ToggleMode", Flip(mode))
    /\ dirty' = TRUE
    /\ UNCHANGED <<dvars, ivars, gvars, handDetected, indexFingerDetected, zoomedPolaroid,
                   pvars, timeDiff, renderedMode, rafScheduled, landmarks, mvars, cvars, handX, handY, lvars>>

\* if (timeDiff < 300)
IsDoubleClickInclusive(td) == td <= DOUBLE_CLICK_TIME
IsDoubleClick(td) == td < DOUBLE_CLICK_TIME

\* Experience.handleTreeClick; a double click calls App.handleTreeClick
TreeClick ==
    /\ ~dirty
    /\ LET double == IsDoubleClick(timeDiff)
           mode1 == IF double THEN Flip(mode) ELSE mode
       IN /\ mode' = mode1
          /\ zoomedPolaroid' = IF double THEN null ELSE zoomedPolaroid
          /\ dirty' = double
          /\ obs' = ObsHandler("TreeClick", mode1)
    /\ timeDiff' = 0
    /\ UNCHANGED <<dvars, ivars, gvars, handDetected, indexFingerDetected, pvars, renderedMode,
                   rafScheduled, landmarks, mvars, cvars, handX, handY, lvars>>

\* PolaroidItem.handleClick on item i, which calls App.handlePolaroidClick(i)
PolaroidClick(i) ==
    /\ ~dirty
    /\ i \in 0..(photoCount - 1)
    /\ LET z1 == IF mode = CHAOS THEN HandlePolaroidClick(mode, zoomedPolaroid, i)
                 ELSE zoomedPolaroid
       IN /\ zoomedPolaroid' = z1
          /\ dirty' = (z1 # zoomedPolaroid)
    \* clk: the polaroid that a click with no hand in the picture has zoomed
    /\ obs' = [ObsHandler("PolaroidClick", mode) EXCEPT
                  !.clk = IF /\ obs.watch = "life" /\ mode = CHAOS
                             /\ ~handDetected /\ ~indexFingerDetected
                             /\ zoomedPolaroid # i
                          THEN i ELSE -2]
    /\ UNCHANGED <<dvars, ivars, gvars, mode, handDetected, indexFingerDetected, pvars,
                   timeDiff, renderedMode, rafScheduled, landmarks, mvars, cvars, handX, handY, lvars>>

\* one frame of the render loop: the useFrame callbacks of Ornaments and of
\* the followed PolaroidItem, with the frame duration delta and the sine w
AnimationFrame(delta, w) ==
    /\ ~dirty
    /\ LET o1 == Wobble(mode,
                        Lerp(currentPositions, OrnamentDest(mode),
                             OrnamentStep(delta, ornamentData.speed)),
                        w)
           zoomed == IsZoomed(zoomedPolaroid, WatchedPolaroid)
           p1 == Lerp(polaroidPosition,
                      PolaroidDest(mode, zoomed),
                      PolaroidStep(delta, polaroidData.speed))
       IN /\ Abs(p1) <= MaxPos
          /\ currentPositions' = o1
          /\ polaroidPosition' = p1
          \* currentPos.lerp and currentPos.y += write the stored vector object
          /\ ornamentData' = IF currentPosRef = "chaosPos"
                             THEN [ornamentData EXCEPT !.chaosPos = o1]
                             ELSE ornamentData
          /\ obs' = [ObsStep("AnimationFrame") EXCEPT
                        !.slerpRate = IF obs.watch = "orient"
                                      THEN SlerpRate(mode, zoomed, polaroidData.speed)
                                      ELSE 0]
    /\ UNCHANGED <<polaroidData, currentPosRef>>
    /\ UNCHANGED <<ivars, gvars, avars, pvars, timeDiff, renderedMode, dirty, rafScheduled,
                   landmarks, cvars, handX, handY, lvars>>

\* one frame of the render loop on which the stored position of an ornament
\* that comes before the followed one is missing (currentPositions.current[k]
\* is undefined): currentPos.lerp throws a TypeError inside data.forEach and
\* the exception leaves the useFrame callback of Ornaments before the followed
\* ornament is reached; the callbacks of the PolaroidItems, mounted after
\* Ornaments, come later in the loop and are not reached either
CorruptFrame ==
    /\ ~dirty
    /\ obs' = ObsStep("CorruptFrame")
    /\ UNCHANGED <<dvars, ivars, gvars, avars, pvars, timeDiff, renderedMode, dirty, rafScheduled,
                   landmarks, mvars, cvars, handX, handY, lvars>>

\* setupMediaPipe: FilesetResolver and HandLandmarker.createFromOptions have
\* resolved, startWebcam is called
ModelLoaded ==
    /\ setupPhase = "model"
    /\ setupPhase' = "webcam"
    /\ obs' = ObsStep("ModelLoaded")
    /\ UNCHANGED <<dvars, ivars, gvars, avars, pvars, timeDiff, renderedMode, dirty, rafScheduled,
                   landmarks, mvars, cvars, handX, handY, orphanLoops, mounted>>

\* setupMediaPipe: one of the two awaits rejects, the catch logs the error
SetupFails ==
    /\ setupPhase = "model"
    /\ setupPhase' = "failed"
    /\ obs' = ObsStep("SetupFails")
    /\ UNCHANGED <<dvars, ivars, gvars, avars, pvars, timeDiff, renderedMode, dirty, rafScheduled,
                   landmarks, mvars, cvars, handX, handY, orphanLoops, mounted>>

\* startWebcam: getUserMedia resolves (granted) or rejects; the loadeddata
\* listener is installed when the stream is there and videoRef.current is set
WebcamAnswers(granted) ==
    /\ setupPhase = "webcam"
    /\ setupPhase' = IF granted /\ mounted THEN "listening" ELSE "nocamera"
    /\ obs' = ObsStep("WebcamAnswers")
    /\ UNCHANGED <<dvars, ivars, gvars, avars, pvars, timeDiff, renderedMode, dirty, rafScheduled,
                   landmarks, mvars, cvars, handX, handY, orphanLoops, mounted>>

\* the video fires loadeddata: the listener calls predictWebcam, which starts
\* one more loop unless it returns at its guard
LoadedData ==
    /\ setupPhase = "listening"
    /\ IF CanProcess(HasLandmarker, mounted)
       THEN /\ rafScheduled => orphanLoops < MaxLoops - 1
            /\ rafScheduled' = TRUE
            /\ orphanLoops' = IF rafScheduled THEN orphanLoops + 1 ELSE orphanLoops
       ELSE UNCHANGED <<rafScheduled, orphanLoops>>
    /\ obs' = ObsStep("LoadedData")
    /\ UNCHANGED <<dvars, ivars, gvars, avars, pvars, timeDiff, renderedMode, dirty,
                   landmarks, mvars, cvars, handX, handY, setupPhase, mounted>>

\* the component is unmounted: React clears videoRef.current and runs the
\* cleanup of the effect, which cancels the request held by animationFrameId
\* (the latest one) and closes handLandmarker if it is set
Cleanup ==
    /\ mounted
    /\ mounted' = FALSE
    /\ EndOneLoop
    /\ obs' = ObsStep("Cleanup")
    /\ UNCHANGED <<dvars, ivars, gvars, avars, pvars, timeDiff, renderedMode, dirty,
                   landmarks, mvars, cvars, handX, handY, setupPhase>>

\* a predictWebcam callback that returns at its guard
StaleCallback ==
    /\ rafScheduled
    /\ ~CanProcess(HasLandmarker, mounted)
    /\ EndOneLoop
    /\ obs' = ObsStep("StaleCallback")
    /\ UNCHANGED <<dvars, ivars, gvars, avars, pvars, timeDiff, renderedMode, dirty,
                   landmarks, mvars, cvars, handX, handY, setupPhase, mounted>>

\* Experience's useFrame: one frame of the camera orbit
CameraFrame(delta) ==
    /\ ~dirty
    /\ LET drive == CameraDrive(handDetected, isUserInteracting)
           diff == AzimuthDiff(TargetAzimuth(handX), cameraAzimuth)
           newAzimuth == cameraAzimuth + Scale(diff, delta * LERP_SPEED * 10)
           rot1 == autoRotateRef + delta * AUTO_ROTATE_SPEED
       IN /\ drive = "idle" => rot1 <= MaxRotation
          /\ autoRotateRef' = IF drive = "idle" THEN rot1 ELSE autoRotateRef
          /\ cameraAzimuth' = IF drive = "hand" THEN WrapAngle(newAzimuth)
                              ELSE IF drive = "idle" THEN WrapAngle(rot1)
                              ELSE cameraAzimuth
          /\ obs' = [ObsStep("CameraFrame") EXCEPT
                        !.drive = drive,
                        !.diff = IF drive = "hand" /\ obs.watch = "azimuth"
                                 THEN diff ELSE 0,
                        !.target = IF drive = "hand" /\ obs.watch = "polar"
                                   THEN <<TargetAzimuth(handX), TargetPolar(handY)>>
                                   ELSE <<0, MIN_POLAR>>]
    /\ UNCHANGED <<dvars, ivars, gvars, avars, pvars, timeDiff, renderedMode, dirty, rafScheduled,
                   landmarks, mvars, tvars, handX, handY, lvars>>

\* what the texture loading leaves alone
LoadFrame ==
    UNCHANGED <<gvars, avars, pvars, timeDiff, renderedMode, dirty, rafScheduled, landmarks,
                mvars, cvars, handX, handY, lvars, dvars>>

\* started: the last place of the chain that loadImage was called with
ObsLoad(name, u) == [ObsStep(name) EXCEPT !.started = Max(@, u)]

\* the onLoad callback of loader.load for the url u, attempt a
LoadSucceeds(u, a, k) ==
    /\ <<u, a, k>> \in LoadKinds
    /\ attempts[<<u, a, k>>] > 0
    /\ attempts' = EndLoad(attempts, u, a, k)
    /\ texture' = u
    /\ error' = FALSE
    /\ isLoading' = FALSE
    /\ obs' = ObsLoad("LoadSucceeds", PRIMARY)
    /\ LoadFrame

\* the onError callback of loader.load: the next fallback, or handleFinalFailure
LoadFails(u, a, k) ==
    /\ <<u, a, k>> \in LoadKinds
    /\ attempts[<<u, a, k>>] > 0
    /\ IF HasFallback(u)
       THEN /\ attempts' = StartLoad(EndLoad(attempts, u, a, k), u + 1, 1)
            /\ isLoading' = TRUE
            /\ obs' = ObsLoad("LoadFails", u + 1)
            /\ UNCHANGED error
       ELSE /\ attempts' = EndLoad(attempts, u, a, k)
            /\ error' = TRUE
            /\ isLoading' = FALSE
            /\ obs' = ObsLoad("LoadFails", PRIMARY)
    /\ UNCHANGED texture
    /\ LoadFrame

\* the 5 s timer of an attempt fires: handleFinalFailure on the third
\* attempt, else loadImage(url, fallbackUrls, attempt + 1); the load that
\* timed out is not aborted
LoadTimesOut(u, a) ==
    /\ attempts[<<u, a, "fresh">>] > 0
    /\ IF a >= MAX_ATTEMPTS
       THEN /\ attempts' = TimerFired(attempts, u, a)
            /\ error' = TRUE
            /\ isLoading' = FALSE
       ELSE /\ InFlight(attempts) < MaxInFlight
            /\ attempts' = StartLoad(TimerFired(attempts, u, a), u, a + 1)
            /\ isLoading' = TRUE
            /\ UNCHANGED error
    /\ obs' = ObsLoad("LoadTimesOut", PRIMARY)
    /\ UNCHANGED texture
    /\ LoadFrame

\* OrbitControls onStart: the pointer goes down on the canvas
OrbitStart ==
    /\ ~dirty
    /\ ~orbiting
    /\ orbiting' = TRUE
    /\ IF ~handDetected
       THEN /\ isUserInteracting' = TRUE
            /\ autoRotateTimeouts' = IF timeoutLive THEN autoRotateTimeouts - 1
                                     ELSE autoRotateTimeouts
            /\ timeoutLive' = FALSE
       ELSE UNCHANGED <<isUserInteracting, autoRotateTimeouts, timeoutLive>>
    /\ dirty' = (isUserInteracting' # isUserInteracting)
    /\ obs' = ObsStep("OrbitStart")
    /\ UNCHANGED <<dvars, ivars, gvars, avars, pvars, timeDiff, renderedMode, rafScheduled,
                   landmarks, mvars, autoRotateRef, cameraAzimuth, handX, handY, lvars>>

\* OrbitControls onEnd: the pointer is released
OrbitEnd ==
    /\ ~dirty
    /\ orbiting
    /\ orbiting' = FALSE
    /\ IF ~handDetected
       THEN /\ autoRotateTimeouts < MaxTimeouts
            /\ autoRotateTimeouts' = autoRotateTimeouts + 1
            /\ timeoutLive' = TRUE
       ELSE UNCHANGED <<autoRotateTimeouts, timeoutLive>>
    /\ obs' = ObsStep("OrbitEnd")
    /\ UNCHANGED <<dvars, ivars, gvars, avars, pvars, timeDiff, renderedMode, dirty, rafScheduled,
                   landmarks, mvars, isUserInteracting, autoRotateRef, cameraAzimuth,
                   handX, handY, lvars>>

\* the oldest pending timer of onEnd fires: setIsUserInteracting(false)
AutoRotateTimeout ==
    /\ ~dirty
    /\ autoRotateTimeouts > 0
    /\ autoRotateTimeouts' = autoRotateTimeouts - 1
    /\ timeoutLive' = (timeoutLive /\ autoRotateTimeouts > 1)
    /\ isUserInteracting' = FALSE
    /\ dirty' = isUserInteracting
    /\ obs' = ObsStep("AutoRotateTimeout")
    /\ UNCHANGED <<dvars, ivars, gvars, avars, pvars, timeDiff, renderedMode, rafScheduled,
                   landmarks, mvars, orbiting, autoRotateRef, cameraAzimuth, handX, handY, lvars>>

\* App.handlePhotosUpload(photos) with k photos; Polaroids builds its items
\* from the uploaded list when it is not empty, from the default list otherwise
PhotosUpload(k) ==
    /\ ~dirty
    /\ photoCount' = (IF k > 0 THEN k ELSE DefaultPhotoCount)
    /\ dirty' = TRUE
    /\ obs' = ObsHandler("PhotosUpload", mode)
    /\ UNCHANGED <<dvars, ivars, gvars, avars, currentZoomIndex, previousIndexFingerState, sinceGesture,
                   timeDiff, renderedMode, rafScheduled, landmarks, mvars, cvars, handX, handY, lvars>>

\* React commit after a state update: the lastModeRef sync effect of
\* GestureController and the index-finger effect of Polaroids
Render ==
    /\ dirty
    /\ renderedMode' = mode
    /\ lastModeRef' = SyncedModeRef(mode, renderedMode, lastModeRef)
    /\ LET rising == RisingEdge(previousIndexFingerState, sinceGesture)
           nextIndex == NextZoomIndex(currentZoomIndex, photoCount)
       IN IF indexFingerDetected /\ photoCount > 0 /\ mode = CHAOS
          THEN IF rising
               THEN /\ currentZoomIndex' = nextIndex
                    /\ zoomedPolaroid' = HandlePolaroidClick(mode, zoomedPolaroid, nextIndex)
                    /\ sinceGesture' = 0
               ELSE UNCHANGED <<currentZoomIndex, zoomedPolaroid, sinceGesture>>
          ELSE IF ~indexFingerDetected /\ zoomedPolaroid # null
               THEN /\ zoomedPolaroid' = HandlePolaroidClick(mode, zoomedPolaroid, null)
                    /\ UNCHANGED <<currentZoomIndex, sinceGesture>>
               ELSE UNCHANGED <<currentZoomIndex, zoomedPolaroid, sinceGesture>>
    /\ previousIndexFingerState' =
           StoredFingerState(indexFingerDetected, mode, previousIndexFingerState)
    /\ dirty' = (zoomedPolaroid' # zoomedPolaroid \/ currentZoomIndex' # currentZoomIndex)
    /\ obs' = [ObsStep("Render") EXCEPT
                  !.rejected = IF obs.watch # "zoom" \/ ~indexFingerDetected THEN FALSE
                               ELSE IF RejectedEdge THEN TRUE
                               ELSE @,
                  !.formedPoint = IF obs.watch # "formed" \/ ~indexFingerDetected THEN FALSE
                                  ELSE IF ~previousIndexFingerState /\ mode = FORMED THEN TRUE
                                  ELSE @]
    /\ UNCHANGED <<dvars, ivars, openFrames, closedFrames, pointingFrames, lastGestureState,
                   hasTriggeredZoom, mode, handDetected, indexFingerDetected,
                   photoCount, timeDiff, rafScheduled, landmarks, mvars, cvars, handX, handY, lvars>>

\* 100 ms pass (Date.now() advances)
Tick ==
    /\ ~dirty
    /\ sinceGesture < SinceGestureSat \/ timeDiff < TimeDiffSat
    /\ sinceGesture' = Min(sinceGesture + 1, SinceGestureSat)
    /\ timeDiff' = Min(timeDiff + 1, TimeDiffSat)
    /\ obs' = ObsStep("Tick")
    /\ UNCHANGED <<dvars, ivars, gvars, avars, currentZoomIndex, previousIndexFingerState, photoCount,
                   renderedMode, dirty, rafScheduled, landmarks, mvars, cvars, handX, handY, lvars>>

Next ==
    \/ \E n \in 0..5 : HandFrame(n)
    \/ NoHandFrame
    \/ ToggleMode
    \/ TreeClick
    \/ \E i \in 0..(DefaultPhotoCount - 1) : PolaroidClick(i)
    \/ Render
    \/ Tick
    \/ DetectorThrows
    \/ \E len \in MalformedLengths : MalformedFrame(len)

\* the gesture machine with the operations that reach it: frames, mode
\* changes from outside, commits
NextGesture ==
    \/ \E n \in 0..5 : HandFrame(n)
    \/ NoHandFrame
    \/ ToggleMode
    \/ TreeClick
    \/ Render

\* a hand held still, frame after frame
NextClassify ==
    \/ HeldHandFrame
    \/ Render

\* the scene: render-loop frames, mode changes and clicks on polaroids
NextMotion ==
    \/ \E delta \in Deltas, w \in Wobbles : AnimationFrame(delta, w)
    \/ ToggleMode
    \/ \E i \in 0..(DefaultPhotoCount - 1) : PolaroidClick(i)
    \/ Render

\* the override lifecycle with photo-set changes: point events and releases
\* from frames, clicks, uploads
NextZoom ==
    \/ \E n \in 0..5 : HandFrame(n)
    \/ NoHandFrame
    \/ ToggleMode
    \/ \E i \in 0..(Max(DefaultPhotoCount, MaxUpload) - 1) : PolaroidClick(i)
    \/ \E k \in 0..MaxUpload : PhotosUpload(k)
    \/ Render
    \/ Tick

\* gestures, the mode button, clicks on the tree and on polaroids, commits
NextFormed ==
    \/ \E n \in 0..5 : HandFrame(n)
    \/ NoHandFrame
    \/ ToggleMode
    \/ TreeClick
    \/ \E i \in 0..(DefaultPhotoCount - 1) : PolaroidClick(i)
    \/ Render
    \/ Tick

\* the camera: hands entering and leaving the picture, the pointer on the
\* canvas, the cooldown timer and the frames of the orbit
NextCamera ==
    \/ HandFrameAt(0, HandXHeld)
    \/ NoHandFrame
    \/ Render
    \/ OrbitStart
    \/ OrbitEnd
    \/ AutoRotateTimeout
    \/ \E delta \in CameraDeltas : CameraFrame(delta)

\* the hand mapping of the orbit: a hand is held at some place of the picture
NextAzimuth ==
    \/ \E x \in HandXSamples : HandFrameAt(0, x)
    \/ Render
    \/ \E delta \in CameraDeltas : CameraFrame(delta)

\* the hand mapping of the orbit over the whole picture
NextPolar ==
    \/ \E x \in HandXEdges, y \in HandYSamples : HandFrameAtPoint(0, x, y)
    \/ NoHandFrame
    \/ Render
    \/ \E delta \in CameraDeltas : CameraFrame(delta)

\* the texture loading of a PolaroidItem: callbacks and timers
NextLoad ==
    \/ \E u \in 0..FALLBACK_COUNT, a \in 0..MAX_ATTEMPTS, k \in {"fresh", "late"} :
          LoadSucceeds(u, a, k)
    \/ \E u \in 0..FALLBACK_COUNT, a \in 0..MAX_ATTEMPTS, k \in {"fresh", "late"} :
          LoadFails(u, a, k)
    \/ \E u \in 0..FALLBACK_COUNT, a \in 1..MAX_ATTEMPTS : LoadTimesOut(u, a)

\* the life of GestureController's effect: setup, loadeddata events, frames
\* of an open hand or one finger or no hand, commits, unmount
NextLifecycle ==
    \/ ModelLoaded
    \/ SetupFails
    \/ \E granted \in BOOLEAN : WebcamAnswers(granted)
    \/ LoadedData
    \/ \E n \in {1, 5} : HandFrame(n)
    \/ NoHandFrame
    \/ Render
    \/ Cleanup
    \/ StaleCallback

\* the scene with frames on which the data of an ornament is corrupt
NextFault ==
    \/ NextMotion
    \/ CorruptFrame

Spec == Init /\ [][Next]_vars
SpecOrient == InitOrient /\ [][NextMotion]_vars
SpecFault == InitFault /\ [][NextFault]_vars
SpecLifecycle == InitLifecycle /\ [][NextLifecycle]_vars
SpecAzimuth == InitAzimuth /\ [][NextAzimuth]_vars
SpecCamera == InitCamera /\ [][NextCamera]_vars
SpecFormed == InitFormed /\ [][NextFormed]_vars
SpecPolar == InitPolar /\ [][NextPolar]_vars
SpecLoad == InitLoad /\ [][NextLoad]_vars
SpecZoom == InitZoom /\ [][NextZoom]_vars
SpecMotion == InitMotion /\ [][NextMotion]_vars
SpecClassify == InitClassify /\ [][NextClassify]_vars
SpecRun == InitRun /\ [][NextGesture]_vars
SpecScn == InitScn /\ [][NextGesture]_vars
SpecPoint == InitPoint /\ [][NextGesture]_vars

TypeOK ==
    /\ openFrames \in 0..MaxFrames /\ closedFrames \in 0..MaxFrames
    /\ pointingFrames \in 0..MaxFrames
    /\ mode \in TreeMode /\ lastModeRef \in TreeMode
    /\ zoomedPolaroid \in -1..(Max(DefaultPhotoCount, MaxUpload) - 1)
    /\ photoCount \in 1..Max(DefaultPhotoCount, MaxUpload)

\* ================================================================ claims
\* one step toward zero, never below it
StepDown(x, x1) == (x > 0 => x1 = x - 1) /\ (x = 0 => x1 = 0)

\* C1 (as stated): a mode change issued by the gesture machine happens only on
\* a frame that ends a run of consecutive identical classifications at least
\* as long as the confirmation threshold.
C1_ModeChangeEndsStrictRun ==
    obs.modeEmit # "none" => obs.runLen >= CONFIDENCE_THRESHOLD

\* C1 (amended): the gesture machine changes the mode only on an OPEN frame
\* (to CHAOS) or a FIST frame (to FORMED) whose streak counter then exceeds the
\* confirmation threshold, hence after more than CONFIDENCE_THRESHOLD frames
\* of that category since the last hand-present frame of another category; a
\* single OPEN or FIST frame that follows a hand-present frame of another
\* category never flips the mode.
C1_ModeChangeNeedsStreak ==
    /\ obs.modeEmit = CHAOS =>
          /\ obs.cat = "OPEN" /\ mode = CHAOS
          /\ openFrames > CONFIDENCE_THRESHOLD
          /\ obs.sameSince > CONFIDENCE_THRESHOLD
    /\ obs.modeEmit = FORMED =>
          /\ obs.cat = "FIST" /\ mode = FORMED
          /\ closedFrames > CONFIDENCE_THRESHOLD
          /\ obs.sameSince > CONFIDENCE_THRESHOLD
    /\ (obs.op = "HandFrame" /\ obs.sameSince = 1) => obs.modeEmit = "none"

\* a mode change by an OPEN frame that directly follows a no-hand frame
C1_Witness ==
    /\ obs.modeEmit = CHAOS /\ obs.runLen = 1
    /\ obs.sameSince > CONFIDENCE_THRESHOLD

\* C2: from mode FORMED with all streak counters at zero, a run of
\* CONFIDENCE_THRESHOLD or more consecutive OPEN frames has made the mode CHAOS.
C2_OpenRunOfThresholdGivesChaos ==
    (/\ obs.scn.ok /\ obs.scn.nones = 0 /\ obs.scn.ambs = 0
     /\ obs.scn.opens >= CONFIDENCE_THRESHOLD)
    => mode = CHAOS

\* C3: a FIST frame increments the fist-streak and zeroes the open-streak; when
\* the fist-streak is then confirmed and the mode is CHAOS the mode becomes
\* FORMED; the change is emitted only when the mode is not already FORMED, and
\* a FIST frame never emits CHAOS.
C3_FistSymmetric ==
    [][ (obs'.op = "HandFrame" /\ obs'.cat = "FIST") =>
          /\ closedFrames' = closedFrames + 1
          /\ openFrames' = 0
          /\ (closedFrames' > CONFIDENCE_THRESHOLD /\ mode = CHAOS)
                => (mode' = FORMED /\ obs'.modeEmit = FORMED)
          /\ obs'.modeEmit = FORMED => mode # FORMED
          /\ obs'.modeEmit # CHAOS
          /\ obs'.modeEmit = "none" => mode' = mode ]_vars

\* a FIST frame that has just confirmed and set the mode to FORMED
C3_Witness ==
    /\ obs.op = "HandFrame" /\ obs.cat = "FIST" /\ obs.modeEmit = FORMED
    /\ closedFrames > CONFIDENCE_THRESHOLD /\ mode = FORMED

\* C4 (as stated): right after a single isolated AMBIGUOUS or NONE frame inside
\* an OPEN run (of at least two frames so far) the open-streak is not zero.
C4_IsolatedFrameKeepsStreak ==
    (/\ obs.scn.ok /\ obs.scn.opens >= 2
     /\ obs.scn.nones + obs.scn.ambs = 1
     /\ obs.cat \in {"NONE", "POINT", "AMBIGUOUS"})
    => openFrames > 0

\* C4 (amended): a single NONE frame inside an otherwise uninterrupted OPEN run
\* lowers the open-streak by exactly one (so a streak of two or more stays
\* above zero) and the mode is CHAOS once the run counts
\* CONFIDENCE_THRESHOLD + 3 frames; a single hand-present frame that is not
\* OPEN (1 to 4 extended fingers) resets the open-streak to zero.
C4_NoneDecaysStreak ==
    /\ (obs.scn.ok /\ obs.scn.nones = 1 /\ obs.scn.ambs = 0 /\ obs.scn.opens >= 1) =>
          /\ openFrames = obs.scn.opens - 1
          /\ obs.scn.opens + obs.scn.nones >= CONFIDENCE_THRESHOLD + 3 => mode = CHAOS
    /\ (obs.scn.ok /\ obs.scn.ambs = 1 /\ obs.scn.nones = 0 /\ obs.cat = "POINT") =>
          openFrames = 0

\* the mode becomes CHAOS on frame CONFIDENCE_THRESHOLD + 3 of an OPEN run
\* holding one NONE frame
C4_Witness ==
    /\ obs.scn.ok /\ obs.scn.nones = 1 /\ obs.scn.ambs = 0
    /\ obs.scn.opens + obs.scn.nones = CONFIDENCE_THRESHOLD + 3
    /\ obs.modeEmit = CHAOS /\ mode = CHAOS

\* C5: while POINTING is sustained, onIndexFingerDetected(true) is invoked at
\* most once.
C5_PointEventAtMostOnce == obs.pointTrue <= 1

\* C6: a POINTING run that follows an OPEN frame has fired the one-shot event
\* and armed the latch once it counts FAST_THRESHOLD frames (fewer than the
\* mode confirmation threshold), whatever the number of pointing fingers.
C6_FastPathAfterOpen ==
    (/\ obs.op = "HandFrame" /\ obs.cat = "POINT"
     /\ obs.runPrev = "OPEN" /\ obs.runLen >= FAST_THRESHOLD)
    => (hasTriggeredZoom /\ obs.pointTrue >= 1)

\* C7: once the commit that follows a mode change is done, the polaroid that
\* was zoomed before the change is no longer zoomed.
C7_ModeChangeClearsOverride ==
    (~dirty /\ obs.mcZoom >= 0) => zoomedPolaroid # obs.mcZoom

\* C8: once the commit that follows a release notification (indexFingerDetected
\* going from true to false) is done, no polaroid is zoomed, in either mode.
C8_ReleaseRemovesOverride ==
    (~dirty /\ obs.rel) => zoomedPolaroid = null

\* C9: after a no-hand frame the hand signal is not detected, the point latch
\* is cleared and the index-finger signal is released.
C9_NoHandReleasesPoint ==
    obs.op = "NoHand" =>
        (~handDetected /\ ~hasTriggeredZoom /\ ~indexFingerDetected)

\* C10: a no-hand frame moves each of the three streak counters one step
\* toward zero, never below zero, and changes neither the mode nor the
\* machine's record of it.
C10_NoHandDecays ==
    [][ obs'.op = "NoHand" =>
          /\ StepDown(openFrames, openFrames')
          /\ StepDown(closedFrames, closedFrames')
          /\ StepDown(pointingFrames, pointingFrames')
          /\ mode' = mode /\ lastModeRef' = lastModeRef
          /\ obs'.modeEmit = "none" ]_vars

\* a no-hand frame that lowered a confirmed open-streak and kept mode CHAOS
C10_Witness ==
    /\ obs.op = "NoHand" /\ openFrames = CONFIDENCE_THRESHOLD /\ mode = CHAOS

C12_ThrowHandledAsNoHand ==
    obs.op = "DetectorThrow" =>
        (rafScheduled /\ ~handDetected /\ lastGestureState = "other" /\ ~hasTriggeredZoom)

\* C13: after a frame whose hand has fewer than 21 points, the frame loop is
\* still scheduled and the frame counted as NONE (no hand reported).
C13_MalformedIsNone ==
    obs.op = "Malformed" => (rafScheduled /\ ~handDetected)

\* the fingers of the held hand that the two extension tests count
ExtendedSet ==
    {f \in LongFingers : landmarks[f].distTip * 10 > landmarks[f].distBase * 15}
    \cup {f \in {"thumb"} : landmarks[f].distTip * 10 > landmarks[f].distBase * 12}

C15_AmbiguousAdvancesNothing ==
    [][ (obs'.op = "HandFrame" /\ Cardinality(ExtendedSet) \in {2, 3}) =>
          /\ pointingFrames' <= pointingFrames
          /\ openFrames' <= openFrames
          /\ closedFrames' <= closedFrames
          /\ mode' = mode ]_vars

\* C16: on every frame of the render loop the followed polaroid moves toward
\* one target, the zoom position if it is the zoomed polaroid, otherwise
\* its formed target when the mode is FORMED and its chaos target when the mode
\* is CHAOS; the ornament, which is never overridden, moves toward its formed
\* target when the mode is FORMED and its chaos target when it is CHAOS.
C16_OneActiveTarget ==
    [][ obs'.op = "AnimationFrame" =>
          LET polaroidTarget ==
                  IF zoomedPolaroid = WatchedPolaroid
                  THEN Max(PolaroidTargetPos + 2, 8)
                  ELSE IF mode = FORMED THEN PolaroidTargetPos ELSE PolaroidChaosPos
              ornamentTarget ==
                  IF mode = FORMED THEN OrnamentTargetPos ELSE OrnamentChaosPos
          IN \E delta \in Deltas, w \in Wobbles :
                /\ polaroidPosition' =
                       Lerp(polaroidPosition, polaroidTarget, delta * PolaroidSpeed)
                /\ currentPositions' =
                       Wobble(mode,
                              Lerp(currentPositions, ornamentTarget,
                                   Min(100, delta * OrnamentSpeed)),
                              w) ]_vars

\* a frame in mode FORMED on which the followed polaroid, being zoomed, has
\* reached the zoom position while the ornament is on its way to the tree
C16_Witness ==
    /\ obs.op = "AnimationFrame" /\ mode = FORMED
    /\ zoomedPolaroid = WatchedPolaroid
    /\ polaroidPosition = ZoomPos
    /\ currentPositions > OrnamentChaosPos

\* the polaroids that are rendered zoomed
ZoomedSet == {i \in 0..(photoCount - 1) : IsZoomed(zoomedPolaroid, i)}

\* C17: in every reachable state at most one polaroid is zoomed.
C17_AtMostOneOverride == Cardinality(ZoomedSet) <= 1

\* one of three uploaded photos is zoomed by a point event, committed
C17_Witness ==
    /\ ~dirty /\ photoCount = MaxUpload /\ indexFingerDetected
    /\ ZoomedSet = {MaxUpload - 1}

\* C18: on every frame of the render loop, each followed entity (the polaroid
\* and, before its wobble, the ornament) moves by the fraction
\* min(1, delta * speed) of the remaining distance to its active target: its
\* distance to the target does not grow and it does not pass beyond the target.
C18_ClampedStep ==
    [][ obs'.op = "AnimationFrame" =>
          LET polaroidTarget == PolaroidDest(mode, zoomedPolaroid = WatchedPolaroid)
              ornamentTarget == OrnamentDest(mode)
          IN /\ \E delta \in Deltas :
                   polaroidPosition' =
                       Lerp(polaroidPosition, polaroidTarget,
                            Min(100, delta * PolaroidSpeed))
             /\ Abs(polaroidTarget - polaroidPosition')
                   <= Abs(polaroidTarget - polaroidPosition)
             /\ (polaroidPosition <= polaroidTarget => polaroidPosition' <= polaroidTarget)
             /\ (polaroidPosition >= polaroidTarget => polaroidPosition' >= polaroidTarget)
             /\ \E delta \in Deltas, w \in Wobbles :
                   currentPositions' =
                       Wobble(mode,
                              Lerp(currentPositions, ornamentTarget,
                                   Min(100, delta * OrnamentSpeed)),
                              w) ]_vars

\* C19: an entity that is within epsilon of its active target is still within
\* epsilon of it after a frame of the render loop (the target is the same
\* before and after the frame): once there, it stays there.
C19_StaysNearTarget ==
    [][ obs'.op = "AnimationFrame" =>
          LET polaroidTarget == PolaroidDest(mode, zoomedPolaroid = WatchedPolaroid)
              ornamentTarget == OrnamentDest(mode)
          IN /\ Abs(polaroidTarget - polaroidPosition) <= PolaroidEpsilon
                   => Abs(polaroidTarget - polaroidPosition') <= PolaroidEpsilon
             /\ Abs(ornamentTarget - currentPositions) <= OrnamentEpsilon
                   => Abs(ornamentTarget - currentPositions') <= OrnamentEpsilon ]_vars

\* C20: the wobble does not reach the stored position of the ornament: after
\* a frame of the render loop currentPositions holds the plain interpolation
\* step from its previous value toward the active target.
C20_WobbleNotStored ==
    [][ obs'.op = "AnimationFrame" =>
          \E delta \in Deltas :
              currentPositions' =
                  Lerp(currentPositions, OrnamentDest(mode),
                       Min(100, delta * OrnamentSpeed)) ]_vars

\* ------------------------------------------------------------------ camera
CameraTypeOK ==
    /\ isUserInteracting \in BOOLEAN /\ orbiting \in BOOLEAN
    /\ autoRotateTimeouts \in 0..MaxTimeouts
    /\ timeoutLive => autoRotateTimeouts > 0
    /\ autoRotateRef \in 0..MaxRotation
    /\ cameraAzimuth \in (-PI)..PI
\* C21: after a manual interaction has ended the manual-interaction flag
\* becomes false again, also when a hand was detected at the moment the
\* interaction ended. The flag is cleared by the cooldown timer only, so in
\* every state where the flag is set and the pointer is released a cooldown
\* timer has to be pending.
C21_CooldownPending ==
    (isUserInteracting /\ ~orbiting) => autoRotateTimeouts > 0

\* C22: a frame of the camera writes the orbit by the hand mapping when a
\* hand is detected (the idle clock stands still), by the idle clock when no
\* hand is detected and no manual interaction is active, and not at all
\* otherwise.
C22_OneDrivePerFrame ==
    [][obs'.op = "CameraFrame" =>
        /\ handDetected =>
              /\ autoRotateRef' = autoRotateRef
              /\ \E delta \in CameraDeltas :
                    cameraAzimuth' =
                      WrapAngle(cameraAzimuth
                                + Scale(AzimuthDiff(TargetAzimuth(handX), cameraAzimuth),
                                        delta * LERP_SPEED * 10))
        /\ (~handDetected /\ ~isUserInteracting) =>
              \E delta \in CameraDeltas :
                 /\ autoRotateRef' = autoRotateRef + delta * AUTO_ROTATE_SPEED
                 /\ cameraAzimuth' = WrapAngle(autoRotateRef')
        /\ (~handDetected /\ isUserInteracting) =>
              UNCHANGED <<autoRotateRef, cameraAzimuth>>
    ]_vars

\* the hand mapping has moved the camera away from where the idle clock,
\* which had advanced before, would have put it
C22_Witness ==
    /\ obs.op = "CameraFrame" /\ obs.drive = "hand"
    /\ autoRotateRef > 0
    /\ cameraAzimuth # WrapAngle(autoRotateRef)

\* C23: the azimuth difference used by the hand mapping is at most half a
\* turn in magnitude and congruent to target - current modulo a full turn.
C23_ShorterDirection ==
    [][(obs'.op = "CameraFrame" /\ obs'.drive = "hand") =>
        /\ Abs(obs'.diff) <= PI
        /\ (obs'.diff - (TargetAzimuth(handX) - cameraAzimuth)) % TWO_PI = 0
    ]_vars

\* target +179 degrees, current -179 degrees: the difference used is the
\* short way round
C23_Witness ==
    /\ obs.op = "CameraFrame" /\ obs.drive = "hand"
    /\ TargetAzimuth(handX) = 312
    /\ obs.diff = -4
\* C24: once the component has been cleaned up no detection frame is
\* processed and no mode, hand or point notification is emitted, whatever
\* the progress of the setup and the number of loadeddata events.
C24_NoFrameAfterCleanup ==
    [][~mounted =>
        /\ obs'.op \notin {"HandFrame", "NoHand", "DetectorThrow", "Malformed"}
        /\ UNCHANGED <<gvars, mode, handDetected, indexFingerDetected, handX>>
    ]_vars

\* unmounted with two loops running: one request was cancelled, the other
\* callback has returned at its guard, and nothing is scheduled any more
C24_Witness ==
    /\ ~mounted /\ obs.op = "StaleCallback" /\ ~rafScheduled
    /\ setupPhase = "listening"
    /\ mode = CHAOS
\* C25: the mode is written by the gesture machine only, on a frame that
\* emits a mode.
C25_OnlyGestureWritesMode ==
    [][mode' # mode => (obs'.op = "HandFrame" /\ obs'.modeEmit = mode')]_vars

\* C25 (amended): the mode has three writers: the gesture machine, on a frame
\* whose streak counter exceeds the confirmation threshold; the UI toggle;
\* and a double click on the tree. Clicks on polaroids, uploads, commits,
\* no-hand frames and failing frames never write it.
C25_ModeWriters ==
    [][mode' # mode =>
        \/ /\ obs'.op = "HandFrame" /\ obs'.modeEmit = mode'
           /\ mode' = CHAOS => openFrames' > CONFIDENCE_THRESHOLD
           /\ mode' = FORMED => closedFrames' > CONFIDENCE_THRESHOLD
        \/ obs'.op = "ToggleMode"
        \/ obs'.op = "TreeClick" /\ timeDiff < DOUBLE_CLICK_TIME
    ]_vars

\* a double click on the tree has changed the mode and the commit is pending
C25_Witness ==
    /\ obs.op = "TreeClick" /\ mode # renderedMode
    /\ openFrames = 0 /\ closedFrames = 0
\* C26: a frame of the render loop leaves the chaos target, the formed
\* target and the speed of every entity as they were built; it changes
\* current positions only (orientation and scale are not followed).
C26_FrameKeepsEntityData ==
    [][obs'.op = "AnimationFrame" =>
        /\ UNCHANGED <<ornamentData, polaroidData>>
        /\ ornamentData.chaosPos = OrnamentChaosPos
        /\ ornamentData.targetPos = OrnamentTargetPos
        /\ ornamentData.speed = OrnamentSpeed
        /\ polaroidData.chaosPos = PolaroidChaosPos
        /\ polaroidData.targetPos = PolaroidTargetPos
        /\ polaroidData.speed = PolaroidSpeed
        /\ UNCHANGED <<gvars, avars, pvars>>
    ]_vars

\* frames have moved the ornament and the polaroid away from their chaos
\* positions in FORMED mode
C26_Witness ==
    /\ obs.op = "AnimationFrame" /\ mode = FORMED
    /\ currentPositions > ornamentData.chaosPos
    /\ polaroidPosition > 0

\* C27: on a frame on which the data of one ornament is corrupt, every other
\* ornament is still updated: the followed ornament, which comes after the
\* corrupt one, is blended toward its target as on any other frame.
C27_OthersStillUpdated ==
    [][obs'.op = "CorruptFrame" =>
        \E delta \in Deltas, w \in Wobbles :
            currentPositions' =
                Wobble(mode,
                       Lerp(currentPositions, OrnamentDest(mode),
                            OrnamentStep(delta, ornamentData.speed)),
                       w)
    ]_vars

\* C28: the rate at which a polaroid turns toward its look direction is the
\* same whatever its position convergence speed, in every mode.
C28_TurnRateIgnoresSpeed ==
    obs.op = "AnimationFrame" =>
        \A speed \in PolaroidSpeeds :
            obs.slerpRate =
                SlerpRate(mode, IsZoomed(zoomedPolaroid, WatchedPolaroid), speed)
\* C29: in CHAOS mode with no hand in the picture, a click on a polaroid that
\* is not zoomed leaves that polaroid zoomed once the commits that follow
\* the click are done.
C29_ClickZoomStays ==
    (~dirty /\ obs.clk >= 0) => zoomedPolaroid = obs.clk
\* the effect of Polaroids accepts a rising edge of the index-finger signal
AcceptedEdge ==
    /\ indexFingerDetected /\ photoCount > 0 /\ mode = CHAOS
    /\ ~previousIndexFingerState
    /\ sinceGesture > gestureDebounceTime

\* the part of C30 that holds in every run, uploads included: an accepted
\* edge moves the zoom index one place on, modulo the photo count, and zooms
\* that photo; a commit with the signal still detected changes neither
ZoomEdgeAdvances ==
    [][obs'.op = "Render" =>
        /\ AcceptedEdge =>
              /\ currentZoomIndex' = (currentZoomIndex + 1) % photoCount
              /\ zoomedPolaroid' = currentZoomIndex'
        /\ (indexFingerDetected /\ previousIndexFingerState) =>
              UNCHANGED <<currentZoomIndex, zoomedPolaroid>>
    ]_vars

\* C30: an accepted rising edge of the index-finger signal moves the zoom
\* index one place on, modulo the photo count, and zooms that photo; commits
\* with the signal still detected advance nothing; and the zoomed index, when
\* there is one, is always below the photo count.
C30_EdgeAdvancesInRange ==
    [][/\ obs'.op = "Render" =>
           /\ AcceptedEdge =>
                 /\ currentZoomIndex' = (currentZoomIndex + 1) % photoCount
                 /\ zoomedPolaroid' = currentZoomIndex'
           /\ (indexFingerDetected /\ previousIndexFingerState) =>
                 UNCHANGED <<currentZoomIndex, zoomedPolaroid>>
       /\ zoomedPolaroid' # null => zoomedPolaroid' \in 0..(photoCount' - 1)
    ]_vars
\* C31: a rising edge of the index-finger signal inside the debounce window
\* installs no override and sets the previous-state flag, and as long as that
\* pointing gesture is held no commit installs one or moves the zoom index.
C31_DebouncedEdgeNeverZooms ==
    [][(obs'.op = "Render" /\ obs'.rejected) =>
        /\ UNCHANGED <<zoomedPolaroid, currentZoomIndex>>
        /\ previousIndexFingerState'
    ]_vars

\* the finger is still held after the debounce window of a rejected edge has
\* passed, and nothing is zoomed
C31_Witness ==
    /\ obs.rejected /\ obs.op = "Render" /\ indexFingerDetected
    /\ mode = CHAOS /\ zoomedPolaroid = null
    /\ sinceGesture > gestureDebounceTime
\* C32: the zoomed polaroid goes from none to an index only in a step whose
\* handler sees mode = CHAOS; a click received in FORMED mode installs
\* nothing, and a pointing gesture first seen in FORMED mode installs nothing
\* at any later commit while the finger stays detected, whatever the mode.
C32_OverrideOnlyInChaos ==
    [][/\ (zoomedPolaroid = null /\ zoomedPolaroid' # null => mode = CHAOS)
       /\ (obs'.op = "PolaroidClick" /\ mode = FORMED => UNCHANGED zoomedPolaroid)
       /\ (obs'.op = "Render" /\ obs'.formedPoint => UNCHANGED zoomedPolaroid)
    ]_vars

\* the finger was pointed in FORMED mode, the mode has since become CHAOS and
\* the finger is still detected after the commit, with nothing zoomed
C32_Witness ==
    /\ obs.formedPoint /\ obs.op = "Render" /\ indexFingerDetected
    /\ mode = CHAOS /\ renderedMode = CHAOS /\ ~dirty
    /\ zoomedPolaroid = null
\* C33: in every reachable state at most one of the three streak counters
\* (open, fist, point) is nonzero, and none of them is negative.
C33_OneStreakAtATime ==
    /\ openFrames >= 0 /\ closedFrames >= 0 /\ pointingFrames >= 0
    /\ Cardinality({c \in {"open", "fist", "point"} :
                       CASE c = "open" -> openFrames # 0
                         [] c = "fist" -> closedFrames # 0
                         [] c = "point" -> pointingFrames # 0}) <= 1

\* a streak of one kind has just replaced a streak of another kind: an
\* open-hand frame has ended a confirmed point streak (the release of the
\* finger is not committed yet) and started the open streak
C33_Witness ==
    /\ openFrames = 1 /\ pointingFrames = 0 /\ closedFrames = 0
    /\ previousIndexFingerState /\ ~indexFingerDetected /\ dirty
    /\ lastGestureState = "open"
\* C34: a hand-present frame with 5 extended fingers advances the open
\* streak, one with 0 advances the fist streak, one with 1..4 advances the
\* point streak and zeroes the other two; the count is in exactly one of the
\* three cases, so the Ambiguous branch is never taken and a four-finger
\* hand never advances the open streak.
C34_ThreeCases ==
    [][\A n \in 0..5 : HandFrame(n) =>
        /\ Cardinality({b \in {"OPEN", "FIST", "POINT"} : Category(n) = b}) = 1
        /\ Category(n) # "AMBIGUOUS"
        /\ (n = 5 => openFrames' = openFrames + 1)
        /\ (n = 0 => closedFrames' = closedFrames + 1)
        /\ (n \in 1..4 => /\ pointingFrames' = pointingFrames + 1
                            /\ openFrames' = 0 /\ closedFrames' = 0)
        /\ (n = 4 => openFrames' <= openFrames)
    ]_vars

\* a four-finger frame (currentGestureState 'open', taken by the pointing
\* branch) has started a point streak in CHAOS mode; the open counter is zero
C34_Witness ==
    /\ obs.op = "HandFrame" /\ obs.cat = "POINT"
    /\ lastGestureState = "open" /\ pointingFrames = 1 /\ openFrames = 0
    /\ mode = CHAOS /\ lastModeRef = CHAOS /\ hasTriggeredZoom = FALSE
\* C35: the gesture machine's record of the mode follows the mode changes
\* made outside it: after every commit the record equals the mode, so each
\* frame of an OPEN run beyond the threshold leaves the mode CHAOS, also
\* after a toggle to FORMED during the run, and each frame of a FIST run
\* beyond the threshold leaves it FORMED.
C35_RunRestoresMode ==
    [][/\ (~dirty' => lastModeRef' = mode')
       /\ (obs'.op = "HandFrame" /\ obs'.cat = "OPEN" /\ Confirmed(openFrames')
              => mode' = CHAOS)
       /\ (obs'.op = "HandFrame" /\ obs'.cat = "FIST" /\ Confirmed(closedFrames')
              => mode' = FORMED)
    ]_vars

\* an OPEN run that was already past the threshold emits CHAOS again: the
\* mode was switched to FORMED from outside during the run
C35_Witness ==
    /\ obs.op = "HandFrame" /\ obs.cat = "OPEN" /\ obs.modeEmit = CHAOS
    /\ openFrames > CONFIDENCE_THRESHOLD + 1
    /\ mode = CHAOS /\ renderedMode = FORMED
\* C36: for every hand y in [0,1] the target polar angle of the hand mapping
\* lies in [PI/4, PI/1.8], and for every hand x in [0,1] the target azimuth
\* lies in [-1.5 PI, 1.5 PI].
C36_TargetInBand ==
    /\ handY \in 0..Y_FULL /\ handX \in 0..HAND_RIGHT
    /\ (obs.op = "CameraFrame" /\ obs.drive = "hand" =>
          /\ obs.target[2] >= MIN_POLAR /\ obs.target[2] <= MAX_POLAR
          /\ 4 * MIN_POLAR = POLAR_PI /\ 18 * MAX_POLAR = 10 * POLAR_PI
          /\ 2 * obs.target[1] >= -(3 * PI) /\ 2 * obs.target[1] <= 3 * PI)

\* the hand is in the bottom right corner of the picture: both targets are
\* at the upper end of their ranges
C36_Witness ==
    /\ obs.op = "CameraFrame" /\ obs.drive = "hand"
    /\ handY = Y_FULL /\ handX = HAND_RIGHT
    /\ obs.target = <<(3 * PI) \div 2, MAX_POLAR>>
\* C37: once the image of a polaroid has loaded (its texture is set), the
\* polaroid is not hidden afterwards: the error state is not set by a later
\* callback or timer of another attempt.
C37_LoadedStaysShown == texture # null => ~error

\* C38: image loading settles in a texture or in the failed state, and the
\* item is marked failed only when loadImage has gone through the primary
\* url and every fallback.
C38_FailedOnlyAfterAllFailed ==
    /\ (InFlight(attempts) = 0 => texture # null \/ error)
    /\ (error => obs.started = FALLBACK_COUNT)

\* C39: a click on the tree changes the mode if and only if the previous
\* click on the tree was less than 300 ms earlier; such a click flips the
\* mode and clears the zoomed polaroid in the same step.
C39_DoubleClickToggles ==
    [][obs'.op = "TreeClick" =>
        /\ (mode' # mode <=> timeDiff < DOUBLE_CLICK_TIME)
        /\ (mode' # mode => mode' = Flip(mode) /\ zoomedPolaroid' = null)
        /\ (mode' = mode => UNCHANGED zoomedPolaroid)
    ]_vars

\* a double click has switched the mode from CHAOS to FORMED while a
\* polaroid was zoomed, and the zoom is gone
C39_Witness ==
    /\ obs.op = "TreeClick" /\ obs.mcZoom >= 0
    /\ mode = FORMED /\ renderedMode = CHAOS /\ zoomedPolaroid = null
    /\ timeDiff = 0

LoadTypeOK ==
    /\ attempts \in [LoadKinds -> 0..MaxInFlight]
    /\ InFlight(attempts) <= MaxInFlight
    /\ texture \in {null} \cup (0..FALLBACK_COUNT)
    /\ error \in BOOLEAN /\ isLoading \in BOOLEAN
====
